---- MODULE Spec2Model ----
(***************************************************************************)
(* GeoStore (core/src/index/GeoStore.cpp): the store registry, the         *)
(* path-based ingestion with its cancellation erase, and the federated     *)
(* search / hasData queries.                                               *)
(*                                                                         *)
(* The world is one-dimensional: an element is a point at a position, a    *)
(* bounding box is an interval of positions, a quad key is <<lod, x>>.     *)
(***************************************************************************)
EXTENDS Integers, Sequences, FiniteSets, TLC

\* ---------------------------------------------------------------- bounds
MaxLen == 2
MaxStores == 2

\* ------------------------------------------------------------ value sets
Keys == {1, 2}                      \* store keys, ordered as std::string orders them
StoreIds == 1..MaxStores            \* the ElementStore objects handed to registerStore
Absent == 0                         \* no entry in storeMap_ for the key
Null == -1                          \* an entry holding an empty unique_ptr

Positions == {0, 1}
Elements == Positions               \* an element is identified by its position
LODs == {1}                         \* one level of tiles, one tile per position
QuadKeys == {<<1, 0>>, <<1, 1>>}
Ranges == {<<1, 1>>, <<1, 2>>}
BBoxes == {<<0, 0>>, <<1, 1>>, <<0, 1>>}
EmptyBox == <<2, -1>>               \* BoundingBox(): min above max, expands on first point
TermSets == {<<"n", "a", "o">>, <<"a", "n", "o">>}

NoQuadKey == <<0, 0>>
NoRange == <<0, 0>>
NoTerms == <<"", "", "">>
NoElem == -1

Shape == "Shape"
Xml == "Xml"
Pbf == "Pbf"
Json == "Json"

Paths == { <<"a", ".", "p", "b", "f">>,
           <<"a", ".", "x", "m", "l">>,
           <<"a", ".", "j", "s", "o", "n">>,
           <<"a", ".", "s", "h", "p">> }

\* ------------------------------------------------- format detection
\* mutant: the suffix is compared without regard to case
Lower(ch) == IF ch = "X" THEN "x" ELSE ch

endsWith(s, ending) ==
    /\ Len(ending) <= Len(s)
    /\ SubSeq(s, Len(s) - Len(ending) + 1, Len(s)) = ending

getFormatTypeFromPath_IgnoreCase(path) ==
    LET low == [i \in DOMAIN path |-> Lower(path[i])]
    IN IF endsWith(low, <<"p", "b", "f">>) THEN Pbf
       ELSE IF endsWith(low, <<"x", "m", "l">>) THEN Xml
       ELSE IF endsWith(low, <<"j", "s", "o", "n">>) THEN Json
       ELSE Shape

getFormatTypeFromPath(path) ==
    IF endsWith(path, <<"p", "b", "f">>) THEN Pbf
    ELSE IF endsWith(path, <<"x", "m", "l">>) THEN Xml
    ELSE IF endsWith(path, <<"j", "s", "o", "n">>) THEN Json
    ELSE Shape

\* mutant: the switch has an arm for every format in every build
HasParser_Always(format, pbf) == TRUE

\* the arms of the dispatcher's switch that exist in the build
HasParser(format, pbf) ==
    \/ format \in {Shape, Xml, Json}
    \/ format = Pbf /\ pbf

\* ------------------------------------------------- geometry helpers
LodsOf(r) == {l \in LODs : r[1] <= l /\ l <= r[2]}
TileAt(l, p) == <<l, p>>
TileBox(q) == <<q[2], q[2]>>
Intersects(a, b) == a[1] <= b[2] /\ b[1] <= a[2]
Expand(b, p) == <<IF p < b[1] THEN p ELSE b[1], IF p > b[2] THEN p ELSE b[2]>>

\* ------------------------------------------------- ElementStore
\* A store's content is a set of <<quadKey, element>> records.
Records == {<<TileAt(l, e), e>> : l \in LODs, e \in Elements}

StoreRange(c, e, r, kept) ==
    IF kept THEN c \cup {<<TileAt(l, e), e>> : l \in LodsOf(r)} ELSE c

StoreTile(c, e, q, kept) ==
    IF kept /\ TileAt(q[1], e) = q THEN c \cup {<<q, e>>} ELSE c

StoreBBox(c, e, b, r, kept) ==
    IF kept
    THEN c \cup {<<TileAt(l, e), e>> : l \in {m \in LodsOf(r) : Intersects(b, TileBox(TileAt(m, e)))}}
    ELSE c

EraseTile(c, q) == {rec \in c : rec[1] # q}

EraseBBox(c, b, r) ==
    {rec \in c : ~(rec[1][1] \in LodsOf(r) /\ Intersects(b, TileBox(rec[1])))}

HasData(c, q) == \E rec \in c : rec[1] = q

\* ------------------------------------------------- state
VARIABLES
    pbfSupported,   \* PBF_SUPPORTED_ENABLED of the build
    storeMap,       \* storeMap_: key -> Absent | Null | store
    content,        \* what each ElementStore holds
    created,        \* number of ElementStore objects handed to registerStore
    pc,             \* position of the one synchronous call in flight
    call,           \* its operation and arguments
    error,          \* the exception that ended the call, if any
    cancelled,      \* cancelToken.isCancelled()
    emitted,        \* elements the parser has offered to the callback
    bboxAcc,        \* bounding box accumulated by the data visitor
    it,             \* position of the range-for over storeMap_
    result,         \* value returned by hasData
    ops,            \* calls the coordinator made on stores during this call
    pre,            \* content when the call began
    firstReg,       \* first store handed to registerStore under each key
    detPath,        \* argument of an evaluation of getFormatTypeFromPath
    detFormat       \* its result

vars == <<pbfSupported, storeMap, content, created, pc, call, error, cancelled,
          emitted, bboxAcc, it, result, ops, pre, firstReg, detPath, detFormat>>

NoCall == [op |-> "none", key |-> 0, quadKey |-> NoQuadKey,
           bbox |-> EmptyBox, range |-> NoRange, terms |-> NoTerms,
           elem |-> NoElem, store |-> 0]

OpRec(s, kind, e, q, b, r, t, c) ==
    [store |-> s, kind |-> kind, elem |-> e, quadKey |-> q, bbox |-> b,
     range |-> r, terms |-> t, token |-> c]

Init ==
    /\ pbfSupported \in BOOLEAN
    /\ storeMap = [k \in Keys |-> Absent]
    /\ content = [s \in StoreIds |-> {}]
    /\ created = 0
    /\ pc = "idle"
    /\ call = NoCall
    /\ error = "none"
    /\ cancelled = FALSE
    /\ emitted = <<>>
    /\ bboxAcc = EmptyBox
    /\ it = 0
    /\ result = FALSE
    /\ ops = <<>>
    /\ pre = [s \in StoreIds |-> {}]
    /\ firstReg = [k \in Keys |-> 0]
    /\ detPath = <<>>
    /\ detFormat = "none"


\* ------------------------------------------------- registry
\* mutant: last registration wins (insert_or_assign instead of emplace)
registerStore_Overwrite(m, key, s) == [m EXCEPT ![key] = s]

\* storeMap_.emplace(storeKey, store): inserts only when the key has no entry
registerStore(m, key, s) ==
    IF m[key] = Absent THEN [m EXCEPT ![key] = s] ELSE m

\* storeMap_[storeKey]: std::map::operator[] default-inserts an empty pointer
Lookup(m, key) ==
    IF m[key] = Absent THEN [m EXCEPT ![key] = Null] ELSE m

\* the keys std::map iterates, in key order
RECURSIVE SortedKeys(_)
SortedKeys(S) ==
    IF S = {} THEN <<>>
    ELSE LET k == CHOOSE x \in S : \A y \in S : x <= y
         IN <<k>> \o SortedKeys(S \ {k})

\* mutant: the registry iterates in insertion order (a vector of pairs);
\* an entry default-inserted by a lookup has no store and comes last
RECURSIVE InsertionOrder(_, _)
InsertionOrder(m, S) ==
    IF S = {} THEN <<>>
    ELSE LET rank(k) == IF m[k] = Null THEN MaxStores + k ELSE m[k]
             k == CHOOSE x \in S : \A y \in S : rank(x) <= rank(y)
         IN <<k>> \o InsertionOrder(m, S \ {k})

MapKeys_InsertionOrder(m) == InsertionOrder(m, {k \in Keys : m[k] # Absent})

MapKeys(m) == SortedKeys({k \in Keys : m[k] # Absent})

\* ------------------------------------------------- calls issued on a store
\* mutant: the tile overload's lambda stores by level of detail, not by tile
TileFunctor_AsRange(cl, e) ==
    OpRec(cl.store, "storeRange", e, NoQuadKey, EmptyBox,
          <<cl.quadKey[1], cl.quadKey[1]>>, NoTerms, FALSE)

\* the lambdas handed to the dispatcher, one per overload
TileFunctor(cl, e) ==
    OpRec(cl.store, "storeTile", e, cl.quadKey, EmptyBox, NoRange, NoTerms, FALSE)

\* mutant: the range overload's lambda ignores its argument and stores a default element
RangeFunctor_DefaultElement(cl, e) ==
    OpRec(cl.store, "storeRange", 0, NoQuadKey, EmptyBox, cl.range, NoTerms, FALSE)

RangeFunctor(cl, e) ==
    OpRec(cl.store, "storeRange", e, NoQuadKey, EmptyBox, cl.range, NoTerms, FALSE)

\* mutant: the bbox overload's lambda uses the registry's first store
BBoxFunctor_FirstStore(cl, e) ==
    OpRec(storeMap[MapKeys(storeMap)[1]], "storeBBox", e, NoQuadKey, cl.bbox, cl.range,
          NoTerms, FALSE)

BBoxFunctor(cl, e) ==
    OpRec(cl.store, "storeBBox", e, NoQuadKey, cl.bbox, cl.range, NoTerms, FALSE)

Functor(cl, e) ==
    CASE cl.op = "addTile" -> TileFunctor(cl, e)
      [] cl.op = "addRange" -> RangeFunctor(cl, e)
      [] cl.op = "addBBox" -> BBoxFunctor(cl, e)

\* mutant: the element overload erases on cancellation, as the path overloads do
ElementCalls_EraseOnCancel(cl, canc) ==
    <<OpRec(cl.store, "storeRange", cl.elem, NoQuadKey, EmptyBox, cl.range, NoTerms, FALSE)>>
    \o (IF canc
        THEN <<OpRec(cl.store, "eraseBBox", NoElem, NoQuadKey, <<cl.elem, cl.elem>>,
                     cl.range, NoTerms, FALSE)>>
        ELSE <<>>)

\* elementStore->store(element, range, styleProvider): all the element overload does
ElementCalls(cl, canc) ==
    <<OpRec(cl.store, "storeRange", cl.elem, NoQuadKey, EmptyBox, cl.range, NoTerms, FALSE)>>

\* mutant: the tile overload forgets its erase
TileErase_Never(cl, canc) == <<>>

\* mutant: the tile overload erases by bounding box, as its siblings do
TileErase_AsBBox(cl, canc) ==
    IF canc
    THEN <<OpRec(cl.store, "eraseBBox", NoElem, NoQuadKey, cl.bbox, cl.range, NoTerms, FALSE)>>
    ELSE <<>>

\* if (cancelToken.isCancelled()) elementStore->erase(...), one per overload
TileErase(cl, canc) ==
    IF canc
    THEN <<OpRec(cl.store, "eraseTile", NoElem, cl.quadKey, EmptyBox, NoRange, NoTerms, FALSE)>>
    ELSE <<>>

\* mutant: the range overload drops the dispatcher's result and erases BoundingBox()
RangeErase_EmptyBox(cl, canc, bbox) ==
    IF canc
    THEN <<OpRec(cl.store, "eraseBBox", NoElem, NoQuadKey, EmptyBox, cl.range, NoTerms, FALSE)>>
    ELSE <<>>

\* mutant: the range overload erases without asking the token
RangeErase_Always(cl, canc, bbox) ==
    <<OpRec(cl.store, "eraseBBox", NoElem, NoQuadKey, bbox, cl.range, NoTerms, FALSE)>>

RangeErase(cl, canc, bbox) ==
    IF canc
    THEN <<OpRec(cl.store, "eraseBBox", NoElem, NoQuadKey, bbox, cl.range, NoTerms, FALSE)>>
    ELSE <<>>

\* mutant: the bbox overload forgets its erase
BBoxErase_Never(cl, canc, bbox) == <<>>

\* mutant: the bbox overload erases the parsed extent, as the range overload does
BBoxErase_ParsedExtent(cl, canc, bbox) ==
    IF canc
    THEN <<OpRec(cl.store, "eraseBBox", NoElem, NoQuadKey, bbox, cl.range, NoTerms, FALSE)>>
    ELSE <<>>

BBoxErase(cl, canc, bbox) ==
    IF canc
    THEN <<OpRec(cl.store, "eraseBBox", NoElem, NoQuadKey, cl.bbox, cl.range, NoTerms, FALSE)>>
    ELSE <<>>

\* mutant: the coordinator checks the token and skips the store when cancelled
TermsVisit_CheckToken(cl, s, canc) ==
    IF canc THEN <<>>
    ELSE <<OpRec(s, "searchTerms", NoElem, NoQuadKey, cl.bbox, cl.range, cl.terms, canc)>>

\* mutant: a handler around the dispatcher rolls the run back when it throws
Unwind_Rollback(cl, canc, bbox) ==
    CASE cl.op = "addTile" ->
           <<OpRec(cl.store, "eraseTile", NoElem, cl.quadKey, EmptyBox, NoRange, NoTerms, FALSE)>>
      [] cl.op = "addRange" ->
           <<OpRec(cl.store, "eraseBBox", NoElem, NoQuadKey, bbox, cl.range, NoTerms, FALSE)>>
      [] cl.op = "addBBox" ->
           <<OpRec(cl.store, "eraseBBox", NoElem, NoQuadKey, cl.bbox, cl.range, NoTerms, FALSE)>>

\* what a path-based add does on its store while an exception of the
\* dispatcher leaves it: nothing, it has no handler
Unwind(cl, canc, bbox) == <<>>

\* body of the loop of search(notTerms, andTerms, orTerms, bbox, range, ...)
TermsVisit(cl, s, canc) ==
    <<OpRec(s, "searchTerms", NoElem, NoQuadKey, cl.bbox, cl.range, cl.terms, canc)>>

\* mutant: the hasData guard is missing
TileVisit_Unguarded(cl, s, has, canc) ==
    <<OpRec(s, "searchTile", NoElem, cl.quadKey, EmptyBox, NoRange, NoTerms, canc)>>

\* body of the loop of search(quadKey, ...)
TileVisit(cl, s, has, canc) ==
    <<OpRec(s, "hasData", NoElem, cl.quadKey, EmptyBox, NoRange, NoTerms, FALSE)>>
    \o (IF has
        THEN <<OpRec(s, "searchTile", NoElem, cl.quadKey, EmptyBox, NoRange, NoTerms, canc)>>
        ELSE <<>>)

\* mutant: returns the first store's answer
HasDataVisit_FirstOnly(has) == [stop |-> TRUE, value |-> has]

\* body of the loop of hasData(quadKey): leave the loop? with which value?
HasDataVisit(has) == [stop |-> has, value |-> has]

\* what a store does with a call (ElementStore)
ApplyOp(c, o, kept) ==
    CASE o.kind = "storeTile" -> StoreTile(c, o.elem, o.quadKey, kept)
      [] o.kind = "storeRange" -> StoreRange(c, o.elem, o.range, kept)
      [] o.kind = "storeBBox" -> StoreBBox(c, o.elem, o.bbox, o.range, kept)
      [] o.kind = "eraseTile" -> EraseTile(c, o.quadKey)
      [] o.kind = "eraseBBox" -> EraseBBox(c, o.bbox, o.range)
      [] OTHER -> c

\* a store receiving a sequence of calls
RECURSIVE ApplyOps(_, _, _)
ApplyOps(c, seq, kept) ==
    IF seq = <<>> THEN c
    ELSE ApplyOps(ApplyOp(c, Head(seq), kept), Tail(seq), kept)

\* ------------------------------------------------- actions
RegisterStore(key) ==
    /\ pc = "idle"
    /\ created < MaxStores
    /\ created' = created + 1
    /\ storeMap' = registerStore(storeMap, key, created + 1)
    /\ firstReg' = IF firstReg[key] = 0 THEN [firstReg EXCEPT ![key] = created + 1]
                   ELSE firstReg
    /\ UNCHANGED <<detPath, detFormat, pbfSupported, error, content, pc, call, cancelled, emitted, bboxAcc,
                   it, result, ops, pre>>

\* add(storeKey, element, range, styleProvider, cancelToken)
AddElement(key, e, r, c, kept) ==
    /\ pc = "idle"
    /\ storeMap' = Lookup(storeMap, key)
    /\ call' = [NoCall EXCEPT !.op = "addElement", !.key = key, !.elem = e,
                              !.range = r, !.store = storeMap'[key]]
    /\ cancelled' = c
    /\ pre' = content
    /\ IF storeMap'[key] = Null
       THEN \* call through an empty pointer
            /\ pc' \in {"crashed", "done"}
            /\ UNCHANGED <<content, ops>>
       ELSE /\ content' = [content EXCEPT
                               ![storeMap'[key]] = ApplyOps(@, ElementCalls(call', c), kept)]
            /\ ops' = ElementCalls(call', c)
            /\ pc' = "done"
    /\ UNCHANGED <<detPath, detFormat, pbfSupported, error, created, emitted, bboxAcc, it, result, firstReg>>

\* entry of a path-based add up to the dispatcher's switch
AddPathBegin(cl, path, c) ==
    /\ pc = "idle"
    /\ storeMap' = Lookup(storeMap, cl.key)
    /\ call' = [cl EXCEPT !.store = storeMap'[cl.key]]
    /\ cancelled' = c
    /\ pre' = content
    /\ IF HasParser(getFormatTypeFromPath(path), pbfSupported)
       THEN pc' = "parsing" /\ error' = error
       ELSE pc' = "threw" /\ error' = "domain_error"   \* default: throw
    /\ UNCHANGED <<detPath, detFormat, pbfSupported, content, created, emitted, bboxAcc, it, result,
                   ops, firstReg>>

\* add(storeKey, path, quadKey, styleProvider, cancelToken)
AddTile(key, path, q, c) ==
    AddPathBegin([NoCall EXCEPT !.op = "addTile", !.key = key, !.quadKey = q], path, c)

\* add(storeKey, path, range, styleProvider, cancelToken)
AddRange(key, path, r, c) ==
    AddPathBegin([NoCall EXCEPT !.op = "addRange", !.key = key, !.range = r], path, c)

\* add(storeKey, path, bbox, range, styleProvider, cancelToken)
AddBBox(key, path, b, r, c) ==
    AddPathBegin([NoCall EXCEPT !.op = "addBBox", !.key = key, !.bbox = b, !.range = r],
                 path, c)

\* the parser decodes one element; the visitor, which polls the token, offers it
ParseElement(e, kept) ==
    /\ pc = "parsing"
    /\ ~cancelled
    /\ Len(emitted) < MaxLen
    /\ IF call.store = Null
       THEN \* call through an empty pointer
            \/ /\ pc' = "crashed"
               /\ UNCHANGED <<content, ops, emitted, bboxAcc>>
            \/ /\ emitted' = Append(emitted, e)
               /\ bboxAcc' = Expand(bboxAcc, e)
               /\ UNCHANGED <<pc, content, ops>>
       ELSE LET o == Functor(call, e)
            IN /\ content' = [content EXCEPT ![o.store] = ApplyOp(@, o, kept)]
               /\ ops' = Append(ops, o)
               /\ emitted' = Append(emitted, e)
               /\ bboxAcc' = Expand(bboxAcc, e)
               /\ pc' = pc
    /\ UNCHANGED <<detPath, detFormat, pbfSupported, error, storeMap, created, call, cancelled, it, result,
                   pre, firstReg>>

\* the parser raises: the exception leaves add before its cancellation check
ParseError ==
    /\ pc = "parsing"
    /\ pc' = "threw"
    /\ error' = "parser_error"
    /\ LET un == Unwind(call, cancelled, bboxAcc)
       IN IF un = <<>> \/ call.store = Null
          THEN UNCHANGED <<content, ops>>
          ELSE /\ content' = [content EXCEPT ![call.store] = ApplyOps(@, un, FALSE)]
               /\ ops' = ops \o un
    /\ UNCHANGED <<detPath, detFormat, pbfSupported, storeMap, created, call, cancelled,
                   emitted, bboxAcc, it, result, pre, firstReg>>

\* the dispatcher returns visitor.complete(); add checks the token and erases
AddReturn(erase) ==
    /\ pc = "parsing"
    /\ IF erase = <<>>
       THEN /\ pc' = "done"
            /\ UNCHANGED <<content, ops>>
       ELSE IF call.store = Null
       THEN \* call through an empty pointer
            /\ pc' \in {"crashed", "done"}
            /\ UNCHANGED <<content, ops>>
       ELSE /\ content' = [content EXCEPT ![erase[1].store] = ApplyOp(@, erase[1], FALSE)]
            /\ ops' = ops \o erase
            /\ pc' = "done"
    /\ UNCHANGED <<detPath, detFormat, pbfSupported, error, storeMap, created, call, cancelled, emitted,
                   bboxAcc, it, result, pre, firstReg>>

AddTileReturn == call.op = "addTile" /\ AddReturn(TileErase(call, cancelled))
AddRangeReturn == call.op = "addRange" /\ AddReturn(RangeErase(call, cancelled, bboxAcc))
AddBBoxReturn == call.op = "addBBox" /\ AddReturn(BBoxErase(call, cancelled, bboxAcc))

\* another thread cancels the token while the call runs
Cancel ==
    /\ pc \in {"parsing", "searching"}
    /\ call.op # "hasData"
    /\ ~cancelled
    /\ cancelled' = TRUE
    /\ UNCHANGED <<detPath, detFormat, pbfSupported, error, storeMap, content, created, pc, call, emitted,
                   bboxAcc, it, result, ops, pre, firstReg>>

QueryBegin(cl, c) ==
    /\ pc = "idle"
    /\ call' = cl
    /\ cancelled' = c
    /\ it' = 1
    /\ pre' = content
    /\ pc' = "searching"
    /\ UNCHANGED <<detPath, detFormat, pbfSupported, error, storeMap, content, created, emitted, bboxAcc,
                   result, ops, firstReg>>

SearchTerms(t, b, r, c) ==
    QueryBegin([NoCall EXCEPT !.op = "searchTerms", !.terms = t, !.bbox = b, !.range = r], c)

SearchTile(q, c) ==
    QueryBegin([NoCall EXCEPT !.op = "searchTile", !.quadKey = q], c)

HasDataCall(q) ==
    QueryBegin([NoCall EXCEPT !.op = "hasData", !.quadKey = q], FALSE)

\* pair.second of the iteration the loop is at
CurrentStore == storeMap[MapKeys(storeMap)[it]]

\* one iteration of for (const auto &pair : storeMap_), or its end;
\* calls: what the loop body does with the current store
LoopStep(calls) ==
    /\ pc = "searching"
    /\ LET keys == MapKeys(storeMap)
       IN IF it > Len(keys)
          THEN /\ pc' = "done"
               /\ UNCHANGED <<it, ops>>
          ELSE LET s == storeMap[keys[it]]
               IN IF s = Null
                  THEN \* call through an empty pointer
                       \/ /\ pc' = "crashed"
                          /\ UNCHANGED <<it, ops>>
                       \/ /\ it' = it + 1
                          /\ UNCHANGED <<pc, ops>>
                  ELSE /\ ops' = ops \o calls
                       /\ it' = it + 1
                       /\ pc' = pc
    /\ UNCHANGED <<detPath, detFormat, pbfSupported, error, storeMap, content, created, call, cancelled,
                   emitted, bboxAcc, result, pre, firstReg>>

SearchTermsStep ==
    /\ call.op = "searchTerms"
    /\ LoopStep(TermsVisit(call, CurrentStore, cancelled))

SearchTileStep ==
    /\ call.op = "searchTile"
    /\ LoopStep(TileVisit(call, CurrentStore,
                           HasData(content[CurrentStore], call.quadKey), cancelled))

HasDataStep ==
    /\ pc = "searching"
    /\ call.op = "hasData"
    /\ LET keys == MapKeys(storeMap)
       IN IF it > Len(keys)
          THEN /\ pc' = "done"
               /\ result' = FALSE
               /\ UNCHANGED <<it, ops>>
          ELSE LET s == storeMap[keys[it]]
               IN IF s = Null
                  THEN \* call through an empty pointer
                       \/ /\ pc' = "crashed"
                          /\ UNCHANGED <<it, ops, result>>
                       \/ /\ it' = it + 1
                          /\ UNCHANGED <<pc, ops, result>>
                  ELSE LET v == HasDataVisit(HasData(content[s], call.quadKey))
                       IN /\ ops' = Append(ops, OpRec(s, "hasData", NoElem, call.quadKey,
                                                       EmptyBox, NoRange, NoTerms, FALSE))
                          /\ IF v.stop
                             THEN /\ pc' = "done"
                                  /\ result' = v.value
                                  /\ it' = it
                             ELSE /\ it' = it + 1
                                  /\ UNCHANGED <<pc, result>>
    /\ UNCHANGED <<detPath, detFormat, pbfSupported, error, storeMap, content, created, call, cancelled,
                   emitted, bboxAcc, pre, firstReg>>

\* the call is over (returned, or its exception reached the caller)
Finish ==
    /\ pc \in {"done", "threw"}
    /\ pc' = "idle"
    /\ call' = NoCall
    /\ error' = "none"
    /\ cancelled' = FALSE
    /\ emitted' = <<>>
    /\ bboxAcc' = EmptyBox
    /\ it' = 0
    /\ result' = FALSE
    /\ ops' = <<>>
    /\ pre' = [s \in StoreIds |-> {}]
    /\ UNCHANGED <<detPath, detFormat, pbfSupported, storeMap, content, created, firstReg>>

Next ==
    \/ \E key \in Keys : RegisterStore(key)
    \/ \E key \in Keys, e \in Elements, r \in Ranges, c \in BOOLEAN, kept \in BOOLEAN :
          AddElement(key, e, r, c, kept)
    \/ \E key \in Keys, path \in Paths, q \in QuadKeys, c \in BOOLEAN :
          AddTile(key, path, q, c)
    \/ \E key \in Keys, path \in Paths, r \in Ranges, c \in BOOLEAN :
          AddRange(key, path, r, c)
    \/ \E key \in Keys, path \in Paths, b \in BBoxes, r \in Ranges, c \in BOOLEAN :
          AddBBox(key, path, b, r, c)
    \/ \E e \in Elements, kept \in BOOLEAN : ParseElement(e, kept)
    \/ ParseError
    \/ AddTileReturn
    \/ AddRangeReturn
    \/ AddBBoxReturn
    \/ Cancel
    \/ \E t \in TermSets, b \in BBoxes, r \in Ranges, c \in BOOLEAN : SearchTerms(t, b, r, c)
    \/ \E q \in QuadKeys, c \in BOOLEAN : SearchTile(q, c)
    \/ \E q \in QuadKeys : HasDataCall(q)
    \/ SearchTermsStep
    \/ SearchTileStep
    \/ HasDataStep
    \/ Finish

Spec == Init /\ [][Next]_vars

\* ------------------------------------------------- format detection alone
\* getFormatTypeFromPath applied to every path of up to MaxPathLen characters
\* over the letters of the three known suffixes, an upper-case letter and a dot.
MaxPathLen == 4
Alphabet == {"p", "b", "f", "x", "m", "l", "j", "s", "o", "n", "X", "."}

InitDetect ==
    /\ Init
    /\ ~pbfSupported

\* a caller spells the path of its next add, one character at a time
AppendChar(ch) ==
    /\ detFormat = "none"
    /\ Len(detPath) < MaxPathLen
    /\ detPath' = Append(detPath, ch)
    /\ UNCHANGED <<detFormat, pbfSupported, storeMap, content, created, pc, call, error,
                   cancelled, emitted, bboxAcc, it, result, ops, pre, firstReg>>

\* switch (getFormatTypeFromPath(path))
Detect ==
    /\ detFormat = "none"
    /\ detFormat' = getFormatTypeFromPath(detPath)
    /\ UNCHANGED <<detPath, pbfSupported, storeMap, content, created, pc, call, error,
                   cancelled, emitted, bboxAcc, it, result, ops, pre, firstReg>>

NextDetect ==
    \/ \E ch \in Alphabet : AppendChar(ch)
    \/ Detect

SpecDetect == InitDetect /\ [][NextDetect]_vars


\* ------------------------------------------------- vocabulary of the properties
PathAdd == call.op \in {"addTile", "addRange", "addBBox"}
OnStore == call.store \in StoreIds            \* storeKey was registered
Returned == pc = "done"                       \* the call returned normally
Registered == {storeMap[k] : k \in Keys} \cap StoreIds

StoreKinds == {"storeTile", "storeRange", "storeBBox"}
EraseKinds == {"eraseTile", "eraseBBox"}
Stores == {i \in DOMAIN ops : ops[i].kind \in StoreKinds}
Erases == {i \in DOMAIN ops : ops[i].kind \in EraseKinds}
CallsOn(s, kind) == {i \in DOMAIN ops : ops[i].store = s /\ ops[i].kind = kind}

TileContent(c, q) == {rec \in c : rec[1] = q}
\* the records a store-operation files when the store retains the element
WrittenBy(o) == ApplyOp({}, o, TRUE)

\* the erase that matches the scope of the overload's writes
ScopedErase(o) ==
    /\ o.store = call.store
    /\ IF call.op = "addTile"
       THEN o.kind = "eraseTile" /\ o.quadKey = call.quadKey
       ELSE o.kind = "eraseBBox" /\ o.range = call.range

\* smallest box around the positions of a sequence of elements
Hull(seq) ==
    LET ps == {seq[i] : i \in DOMAIN seq}
    IN IF ps = {} THEN EmptyBox
       ELSE <<CHOOSE a \in ps : \A x \in ps : a <= x,
              CHOOSE b \in ps : \A x \in ps : b >= x>>

\* ------------------------------------------------- C1
\* C1 as stated: every path-based add that ends (by return or by exception) with
\* the token cancelled has issued exactly one erase on its store, scoped like
\* the overload's writes.
C1_EraseOnEveryCancelledEnd ==
    (PathAdd /\ OnStore /\ pc \in {"done", "threw"} /\ cancelled)
        => /\ Cardinality(Erases) = 1
           /\ \A i \in Erases : ScopedErase(ops[i])

\* C1 amended: a path-based add that returns normally with the token cancelled
\* at its check has issued exactly one erase, as its last call on the store and
\* scoped like the overload's writes.
C1_EraseOnCancelledReturn ==
    (PathAdd /\ OnStore /\ Returned /\ cancelled)
        => /\ Cardinality(Erases) = 1
           /\ Erases = {Len(ops)}
           /\ \A i \in Erases : ScopedErase(ops[i])

C1_Witness ==
    /\ call.op = "addTile" /\ OnStore /\ Returned /\ cancelled
    /\ Len(emitted) = MaxLen
    /\ Cardinality(Erases) = 1

\* ------------------------------------------------- C2
\* C2 as stated: after a cancelled tile-scoped add the store's content for the
\* tile equals its content before the call.
C2_TileRestored ==
    (call.op = "addTile" /\ OnStore /\ Returned /\ cancelled)
        => TileContent(content[call.store], call.quadKey)
             = TileContent(pre[call.store], call.quadKey)

\* C2 amended: after a cancelled tile-scoped add the store's content for the
\* tile is empty, whatever it held before the call; it equals the content
\* before the call only when the tile was empty then. Other tiles are as before.
C2_TileEmptied ==
    (call.op = "addTile" /\ OnStore /\ Returned /\ cancelled)
        => /\ TileContent(content[call.store], call.quadKey) =
                IF TileContent(pre[call.store], call.quadKey) = {}
                THEN TileContent(pre[call.store], call.quadKey)
                ELSE {}
           /\ \A q \in QuadKeys \ {call.quadKey} :
                TileContent(content[call.store], q) = TileContent(pre[call.store], q)

C2_Witness ==
    /\ call.op = "addTile" /\ OnStore /\ Returned /\ cancelled
    /\ TileContent(pre[call.store], call.quadKey) # {}
    /\ content[call.store] # {}
    /\ Len(emitted) >= 1

\* ------------------------------------------------- C3
\* C3: a tile-scoped add cancelled mid-parse ends with one erase on the store
\* and with the quadKey every store-operation of the run used, and the store
\* then has no data for that tile.
C3_CancelledTileAbsent ==
    (call.op = "addTile" /\ OnStore /\ Returned /\ cancelled)
        => /\ ops # <<>>
           /\ ops[Len(ops)].kind = "eraseTile"
           /\ \A i \in DOMAIN ops :
                /\ ops[i].store = call.store
                /\ ops[i].quadKey = call.quadKey
                /\ i < Len(ops) => ops[i].kind = "storeTile"
           /\ ~HasData(content[call.store], call.quadKey)

C3_Witness ==
    /\ call.op = "addTile" /\ OnStore /\ Returned /\ cancelled
    /\ Len(ops) = 2
    /\ HasData(pre[call.store], call.quadKey)
    /\ TileAt(call.quadKey[1], emitted[1]) = call.quadKey

\* ------------------------------------------------- C4
\* C4: a bbox+range add whose token is cancelled after the k-th element makes
\* exactly k store-operations, then exactly one erase(bbox, range), nothing
\* after it, and the store holds nothing this run wrote.
C4_StoresThenOneErase ==
    (call.op = "addBBox" /\ OnStore /\ Returned /\ cancelled)
        => /\ Len(ops) = Len(emitted) + 1
           /\ Stores = 1..Len(emitted)
           /\ Erases = {Len(emitted) + 1}
           /\ \A i \in Stores : ops[i].store = call.store /\ ops[i].kind = "storeBBox"
           /\ ops[Len(ops)] = OpRec(call.store, "eraseBBox", NoElem, NoQuadKey,
                                    call.bbox, call.range, NoTerms, FALSE)
           /\ \A i \in Stores : WrittenBy(ops[i]) \cap content[call.store] = {}

C4_Witness ==
    /\ call.op = "addBBox" /\ OnStore /\ Returned /\ cancelled
    /\ Len(emitted) = MaxLen
    /\ \E i \in Stores : WrittenBy(ops[i]) # {}
    /\ content[call.store] # {}

\* ------------------------------------------------- C5
\* C5: a cancelled range-scoped add erases (b, range), b the box around the
\* elements offered to the callback in this run, range the call's argument.
C5_RangeEraseUsesParsedBox ==
    (call.op = "addRange" /\ OnStore /\ Returned /\ cancelled)
        => /\ ops # <<>>
           /\ ops[Len(ops)] = OpRec(call.store, "eraseBBox", NoElem, NoQuadKey,
                                    Hull(emitted), call.range, NoTerms, FALSE)

C5_Witness ==
    /\ call.op = "addRange" /\ OnStore /\ Returned /\ cancelled
    /\ Hull(emitted) = <<0, 1>>
    /\ ops[Len(ops)].kind = "eraseBBox"

\* ------------------------------------------------- C6
\* C6: in the bbox+range add every store-operation and the erase carry the
\* caller's bbox and range; the box computed from the parsed elements is not
\* the erase scope.
C6_CallerBoxEverywhere ==
    (call.op = "addBBox" /\ OnStore)
        => /\ \A i \in DOMAIN ops : ops[i].bbox = call.bbox /\ ops[i].range = call.range
           /\ (Returned /\ cancelled) => Erases # {}

C6_Witness ==
    /\ call.op = "addBBox" /\ OnStore /\ Returned /\ cancelled
    /\ bboxAcc # EmptyBox
    /\ bboxAcc # call.bbox
    /\ Erases # {}
    /\ Stores # {}

\* ------------------------------------------------- C7
\* C7: a key keeps the first store registered under it; a store handed to
\* registerStore for a taken key is never called and never holds anything.
C7_FirstRegistrationWins ==
    /\ \A k \in Keys :
          (firstReg[k] # 0 /\ storeMap[k] # Null) => storeMap[k] = firstReg[k]
    /\ \A i \in DOMAIN ops : ops[i].store \in Registered
    /\ \A s \in StoreIds \ Registered : content[s] = {}

C7_Witness ==
    /\ created = 2
    /\ \E k \in Keys : storeMap[k] = 1 /\ \A j \in Keys \ {k} : firstReg[j] = 0
    /\ Returned
    /\ ops # <<>>

\* ------------------------------------------------- C8
\* C8: the tile-scoped federated search calls search(quadKey) once on each
\* registered store whose hasData(quadKey) is true and never on the others.
C8_SearchOnlyWhereData ==
    (call.op = "searchTile" /\ Returned)
        => \A s \in Registered :
              /\ Cardinality(CallsOn(s, "searchTile")) =
                    IF HasData(content[s], call.quadKey) THEN 1 ELSE 0
              /\ \A i \in CallsOn(s, "searchTile") : ops[i].quadKey = call.quadKey

C8_Witness ==
    /\ call.op = "searchTile" /\ Returned
    /\ \E s, t \in Registered :
          /\ HasData(content[s], call.quadKey)
          /\ ~HasData(content[t], call.quadKey)
          /\ CallsOn(s, "searchTile") # {}

\* ------------------------------------------------- C9
\* C9: hasData(quadKey) returns true exactly when some registered store has
\* data for quadKey (false for an empty registry).
C9_HasDataIsAny ==
    (call.op = "hasData" /\ Returned)
        => (result <=> \E s \in Registered : HasData(content[s], call.quadKey))

C9_Witness ==
    /\ call.op = "hasData" /\ Returned /\ result
    /\ Len(ops) = 2

\* ------------------------------------------------- C10
\* C10: the predicate search calls every registered store's search once with
\* the call's arguments, whether or not the token is cancelled.
C10_EveryStoreSearched ==
    (call.op = "searchTerms" /\ Returned)
        => /\ Len(ops) = Cardinality(Registered)
           /\ \A s \in Registered :
                /\ Cardinality(CallsOn(s, "searchTerms")) = 1
                /\ \A i \in CallsOn(s, "searchTerms") :
                      /\ ops[i].terms = call.terms
                      /\ ops[i].bbox = call.bbox
                      /\ ops[i].range = call.range

C10_Witness ==
    /\ call.op = "searchTerms" /\ Returned
    /\ Len(ops) = 2
    /\ ~ops[1].token
    /\ ops[2].token


\* ------------------------------------------------- C11
\* C11: the element overload with a registered key makes one range-scoped
\* store-operation of the element on that store and nothing else (no parse, no
\* erase, cancelled or not); the store then holds what it held plus, if it
\* retained the element, that element for the range.
C11_DirectAddStoresOnce ==
    (call.op = "addElement" /\ OnStore /\ Returned)
        => /\ ops = <<OpRec(call.store, "storeRange", call.elem, NoQuadKey, EmptyBox,
                            call.range, NoTerms, FALSE)>>
           /\ emitted = <<>>
           /\ content[call.store] \in
                 {pre[call.store],
                  pre[call.store] \cup {<<TileAt(l, call.elem), call.elem>> : l \in LodsOf(call.range)}}
           /\ \A s \in StoreIds \ {call.store} : content[s] = pre[s]

C11_Witness ==
    /\ call.op = "addElement" /\ OnStore /\ Returned /\ cancelled
    /\ content[call.store] # pre[call.store]
    /\ Cardinality(content[call.store]) = Cardinality(pre[call.store]) + 1


\* ------------------------------------------------- C12
PbfPaths == {p \in Paths : endsWith(p, <<"p", "b", "f">>)}

\* a path-based add is entered with a path ending in pbf
BeginsWithPbfPath ==
    \E key \in Keys, path \in PbfPaths, c \in BOOLEAN :
       \/ \E q \in QuadKeys : AddTile(key, path, q, c)
       \/ \E r \in Ranges : AddRange(key, path, r, c)
       \/ \E b \in BBoxes, r \in Ranges : AddBBox(key, path, b, r, c)

\* C12: in a build without the Pbf parser a path-based add of a path ending in
\* pbf ends with the unsupported-format error, whatever the token, having made
\* no call on any store and changed no store's content.
C12_UnsupportedFormatThrows ==
    /\ [][(BeginsWithPbfPath /\ ~pbfSupported)
             => (pc' = "threw" /\ error' = "domain_error" /\ ops' = <<>>
                 /\ content' = content)]_vars
    /\ [](error = "domain_error"
             => (pc = "threw" /\ ~pbfSupported /\ PathAdd /\ ops = <<>>
                 /\ emitted = <<>> /\ content = pre))

C12_Witness ==
    /\ pc = "threw" /\ error = "domain_error" /\ PathAdd /\ OnStore
    /\ cancelled
    /\ content[call.store] # {}


\* ------------------------------------------------- C13
\* path = prefix \o suffix for some prefix
HasSuffix(path, suffix) ==
    \E n \in 0..Len(path) :
       /\ Len(path) - n = Len(suffix)
       /\ \A i \in 1..Len(suffix) : path[n + i] = suffix[i]

\* C13: every path has exactly one format: Pbf, Xml or Json when it ends in
\* pbf, xml or json as written (case matters), Shape in every other case,
\* the empty path and paths shorter than a suffix included.
C13_FormatBySuffix ==
    detFormat # "none"
        => /\ detFormat \in {Shape, Xml, Pbf, Json}
           /\ HasSuffix(detPath, <<"p", "b", "f">>) => detFormat = Pbf
           /\ HasSuffix(detPath, <<"x", "m", "l">>) => detFormat = Xml
           /\ HasSuffix(detPath, <<"j", "s", "o", "n">>) => detFormat = Json
           /\ (~HasSuffix(detPath, <<"p", "b", "f">>)
               /\ ~HasSuffix(detPath, <<"x", "m", "l">>)
               /\ ~HasSuffix(detPath, <<"j", "s", "o", "n">>)) => detFormat = Shape

C13_Witness ==
    /\ detPath = <<".", "X", "m", "l">>
    /\ detFormat = Shape


\* ------------------------------------------------- C14
\* the store-operation of the overload's scope for one element
ScopedStore(o, e) ==
    /\ o.store = call.store
    /\ o.elem = e
    /\ o.kind = CASE call.op = "addTile" -> "storeTile"
                  [] call.op = "addRange" -> "storeRange"
                  [] call.op = "addBBox" -> "storeBBox"

\* C14: at every moment of a path-based add the store-operations made on the
\* target store are, in order, one per element emitted so far, of the
\* overload's scope: nothing reordered, repeated, dropped or held back.
C14_StoresFollowEmission ==
    (PathAdd /\ OnStore)
        => /\ Stores = 1..Len(emitted)
           /\ \A i \in Stores : ScopedStore(ops[i], emitted[i])

C14_Witness ==
    /\ call.op = "addRange" /\ OnStore
    /\ emitted = <<1, 0>>
    /\ Len(ops) = 2

\* ------------------------------------------------- C15
\* the records the store-operations of the run can have filed
RunRecords == UNION {WrittenBy(ops[i]) : i \in Stores}

\* C15: a path-based add ended by a parser error after k store-operations has
\* made no erase: its calls on the store are those k store-operations, and
\* the store holds what it held before plus what it retained of them, also
\* when the token is cancelled.
C15_NoRollbackOnParserError ==
    (PathAdd /\ OnStore /\ pc = "threw" /\ error = "parser_error")
        => /\ Erases = {}
           /\ Len(ops) = Len(emitted)
           /\ pre[call.store] \subseteq content[call.store]
           /\ content[call.store] \subseteq pre[call.store] \cup RunRecords

C15_Witness ==
    /\ PathAdd /\ OnStore /\ pc = "threw" /\ error = "parser_error"
    /\ cancelled
    /\ Len(ops) = MaxLen
    /\ content[call.store] # pre[call.store]


\* ------------------------------------------------- C16
Query == call.op \in {"searchTerms", "searchTile", "hasData"}
\* the key a registered store sits under
KeyOf(s) == CHOOSE k \in Keys : storeMap[k] = s

\* C16 as stated: within one federated call, a store registered earlier is
\* called before a store registered later (stores are numbered as registered).
C16_RegistrationOrder ==
    Query => \A i, j \in DOMAIN ops : i < j => ops[i].store <= ops[j].store

\* C16 amended: within one federated call the stores are called in ascending
\* order of their keys, whatever the order they were registered in.
C16_KeyOrder ==
    Query => \A i, j \in DOMAIN ops : i < j => KeyOf(ops[i].store) <= KeyOf(ops[j].store)

C16_Witness ==
    /\ call.op = "searchTerms" /\ Returned
    /\ Len(ops) = 2
    /\ ops[1].store > ops[2].store


\* ------------------------------------------------- C17
\* C17: the registry holds exactly the keys registerStore was called with,
\* each with the first store registered under it; no add, search or hasData
\* adds, removes or changes an entry.
C17_OnlyRegisterStoreChangesRegistry ==
    \A k \in Keys :
       storeMap[k] = IF firstReg[k] = 0 THEN Absent ELSE firstReg[k]

\* ------------------------------------------------- C18
\* C18: a path-based add that returns has made an erase exactly when the token
\* was cancelled at its check: not cancelled, the store holds what it held
\* plus what it retained of the run; cancelled (even after the last element),
\* nothing the run filed is left.
C18_EraseIffCancelledAtCheck ==
    (PathAdd /\ OnStore /\ Returned)
        => /\ Cardinality(Erases) = IF cancelled THEN 1 ELSE 0
           /\ ~cancelled =>
                \E K \in SUBSET Stores :
                   content[call.store] =
                      pre[call.store] \cup UNION {WrittenBy(ops[i]) : i \in K}
           /\ cancelled => RunRecords \cap content[call.store] = {}

C18_Witness ==
    /\ call.op = "addRange" /\ OnStore /\ Returned /\ cancelled
    /\ Len(emitted) = MaxLen
    /\ RunRecords # {}
    /\ content[call.store] # pre[call.store]

\* ------------------------------------------------- C19
AddCall == PathAdd \/ call.op = "addElement"

\* C19: an add with storeKey K calls only the store registered under K and
\* leaves every other store's content alone; search and hasData make no
\* store-operation and no erase and change no content.
C19_OnlyTargetStoreTouched ==
    /\ AddCall =>
          /\ \A i \in DOMAIN ops :
                ops[i].store = storeMap[call.key] /\ ops[i].kind \in StoreKinds \cup EraseKinds
          /\ \A s \in StoreIds \ {storeMap[call.key]} : content[s] = pre[s]
    /\ Query => (Stores \cup Erases = {} /\ content = pre)

C19_Witness ==
    /\ call.op = "addBBox" /\ OnStore /\ Returned
    /\ Cardinality(Registered) = 2
    /\ content[call.store] # pre[call.store]
    /\ \E s \in Registered \ {call.store} : content[s] # {}
    /\ Len(ops) >= 2

====
